---------------------------- MODULE Spec2Model ----------------------------
(***************************************************************************)
(* A model of preprocess.py, the preprocessor that turns the Matthew Henry *)
(* commentary HTM files into a searchable corpus.  Python strings are      *)
(* modelled as sequences of one-character strings, so that matching,       *)
(* slicing, stripping and concatenation are computed character by          *)
(* character as the code computes them.  Python's 0-based offsets are      *)
(* kept: the character at Python offset k of s is s[k + 1].                *)
(***************************************************************************)
EXTENDS Integers, Sequences, FiniteSets, TLC

VARIABLES
  pc,             \* position of the modelled function or of main
  passage_str,    \* parse_passage_ref: its argument
  given,          \* the table entry and chapter passage_str was written from, if any
  ref_result,     \* parse_passage_ref: the value it returns
  stripped,       \* extract_references_with_context: strip_html(html_content)
  anchors,        \* the (passage, display) groups re.finditer yields, in order
  context_chars,  \* extract_references_with_context: its parameter
  text_content,   \* the normalized plain text (line 205)
  anchor_i,       \* the number of anchors the loop of line 207 has consumed
  references,     \* the list extract_references_with_context builds
  parsed,         \* locals of the last loop iteration (lines 208-235)
  display_text,
  display_clean,
  pos,
  start,
  end,
  context,
  text_parts,     \* HTMLTextExtractor
  in_script,
  in_style,
  fed,            \* the events fed to the extractor so far
  input_files,    \* main: the names Path(args.input).glob('MHC*.HTM') yields
  contents,       \* main: the document each of these files holds
  htm_files,      \* build_book_structure / main: the list of file names
  structure,      \* build_book_structure: the value it returns
  file_i,         \* main: the index of the batch loop
  failing,        \* main: the files whose processing raises
  documents,      \* main
  total_refs,     \* main
  diagnostics     \* main: the files an error line was printed for

vars == <<pc, passage_str, given, ref_result, stripped, anchors, context_chars,
          text_content, anchor_i, references, parsed, display_text, display_clean,
          pos, start, end, context, text_parts, in_script, in_style, fed,
          input_files, contents, htm_files, structure, file_i, failing,
          documents, total_refs, diagnostics>>

parseVars == <<passage_str, given, ref_result>>
extractVars == <<stripped, anchors, context_chars, text_content, anchor_i, references,
                 parsed, display_text, display_clean, pos, start, end, context>>
htmlVars == <<text_parts, in_script, in_style, fed>>
structVars == <<htm_files, structure>>
mainVars == <<input_files, contents, file_i, failing, documents, total_refs,
             diagnostics>>

-----------------------------------------------------------------------------
(* Characters and the str methods the code uses.                           *)

None == "None"

\* the None a function returns in place of a record
NoneRecord == [none |-> TRUE]

Digit == {"0", "1", "2", "3", "4", "5", "6", "7", "8", "9"}

UpperLetters == <<"A", "B", "C", "D", "E", "F", "G", "H", "I", "J", "K", "L", "M",
                  "N", "O", "P", "Q", "R", "S", "T", "U", "V", "W", "X", "Y", "Z">>

LowerLetters == <<"a", "b", "c", "d", "e", "f", "g", "h", "i", "j", "k", "l", "m",
                  "n", "o", "p", "q", "r", "s", "t", "u", "v", "w", "x", "y", "z">>

\* [A-Za-z]
Letter == {UpperLetters[i] : i \in 1..26} \cup {LowerLetters[i] : i \in 1..26}

\* \s of the regular expressions, and what str.strip() removes
Whitespace == {" ", "\t", "\n", "\r"}

\* str.lower(), one character
LowerChar(c) ==
  IF \E i \in 1..26 : UpperLetters[i] = c
  THEN LowerLetters[CHOOSE i \in 1..26 : UpperLetters[i] = c]
  ELSE c

\* str.lower()
Lower(s) == [i \in 1..Len(s) |-> LowerChar(s[i])]

\* str.replace(old, new) for a one-character old and a one-character new
ReplaceChar(s, old, new) == [i \in 1..Len(s) |-> IF s[i] = old THEN new ELSE s[i]]

\* str.replace(old, '') for a one-character old
RemoveChar(s, old) == SelectSeq(s, LAMBDA c : c # old)

RECURSIVE LStrip(_)
LStrip(s) == IF s # <<>> /\ Head(s) \in Whitespace THEN LStrip(Tail(s)) ELSE s

RECURSIVE RStrip(_)
RStrip(s) ==
  IF s # <<>> /\ s[Len(s)] \in Whitespace THEN RStrip(SubSeq(s, 1, Len(s) - 1)) ELSE s

\* str.strip()
Strip(s) == RStrip(LStrip(s))

\* Python's s[a:b] for 0 <= a and 0 <= b (offsets past the end are clipped)
Slice(s, a, b) ==
  LET hi == IF b > Len(s) THEN Len(s) ELSE b
  IN  IF a >= hi THEN <<>> ELSE SubSeq(s, a + 1, hi)

\* the greedy run of a character class: the first index at or after i (1-based)
\* whose character is not in S
RECURSIVE SkipSet(_, _, _)
SkipSet(s, i, S) == IF i <= Len(s) /\ s[i] \in S THEN SkipSet(s, i + 1, S) ELSE i

\* int() of a string of decimal digits
RECURSIVE IntOf(_)
IntOf(ds) ==
  IF ds = <<>> THEN 0
  ELSE 10 * IntOf(SubSeq(ds, 1, Len(ds) - 1))
       + (CHOOSE d \in 0..9 : <<"0", "1", "2", "3", "4", "5", "6", "7", "8", "9">>[d + 1] = ds[Len(ds)])

\* str() of a natural number
RECURSIVE StrOf(_)
StrOf(n) ==
  LET last == <<(<<"0", "1", "2", "3", "4", "5", "6", "7", "8", "9">>)[(n % 10) + 1]>>
  IN  IF n < 10 THEN last ELSE StrOf(n \div 10) \o last

-----------------------------------------------------------------------------
(* The static tables, in the order the source declares their entries.      *)

PASSAGE_BOOK_MAP ==
  <<
     <<<<"g", "e">>, "Genesis">>,
     <<<<"g", "e", "n">>, "Genesis">>,
     <<<<"e", "x">>, "Exodus">>,
     <<<<"e", "x", "o">>, "Exodus">>,
     <<<<"e", "x", "o", "d">>, "Exodus">>,
     <<<<"l", "e">>, "Leviticus">>,
     <<<<"l", "e", "v">>, "Leviticus">>,
     <<<<"n", "u">>, "Numbers">>,
     <<<<"n", "u", "m">>, "Numbers">>,
     <<<<"d", "e">>, "Deuteronomy">>,
     <<<<"d", "e", "u">>, "Deuteronomy">>,
     <<<<"d", "e", "u", "t">>, "Deuteronomy">>,
     <<<<"j", "o", "s">>, "Joshua">>,
     <<<<"j", "o", "s", "h">>, "Joshua">>,
     <<<<"j", "u", "d">>, "Judges">>,
     <<<<"j", "u", "d", "g">>, "Judges">>,
     <<<<"r", "u">>, "Ruth">>,
     <<<<"r", "u", "t">>, "Ruth">>,
     <<<<"r", "u", "t", "h">>, "Ruth">>,
     <<<<"1", "s", "a">>, "1 Samuel">>,
     <<<<"1", "s", "a", "m">>, "1 Samuel">>,
     <<<<"2", "s", "a">>, "2 Samuel">>,
     <<<<"2", "s", "a", "m">>, "2 Samuel">>,
     <<<<"1", "k", "i">>, "1 Kings">>,
     <<<<"1", "k", "i", "n">>, "1 Kings">>,
     <<<<"1", "k", "i", "n", "g", "s">>, "1 Kings">>,
     <<<<"2", "k", "i">>, "2 Kings">>,
     <<<<"2", "k", "i", "n">>, "2 Kings">>,
     <<<<"2", "k", "i", "n", "g", "s">>, "2 Kings">>,
     <<<<"1", "c", "h">>, "1 Chronicles">>,
     <<<<"1", "c", "h", "r">>, "1 Chronicles">>,
     <<<<"1", "c", "h", "r", "o", "n">>, "1 Chronicles">>,
     <<<<"2", "c", "h">>, "2 Chronicles">>,
     <<<<"2", "c", "h", "r">>, "2 Chronicles">>,
     <<<<"2", "c", "h", "r", "o", "n">>, "2 Chronicles">>,
     <<<<"e", "z", "r">>, "Ezra">>,
     <<<<"e", "z", "r", "a">>, "Ezra">>,
     <<<<"n", "e">>, "Nehemiah">>,
     <<<<"n", "e", "h">>, "Nehemiah">>,
     <<<<"e", "s">>, "Esther">>,
     <<<<"e", "s", "t">>, "Esther">>,
     <<<<"e", "s", "t", "h">>, "Esther">>,
     <<<<"j", "o", "b">>, "Job">>,
     <<<<"p", "s">>, "Psalms">>,
     <<<<"p", "s", "a">>, "Psalms">>,
     <<<<"p", "s", "a", "l", "m">>, "Psalms">>,
     <<<<"p", "s", "a", "l", "m", "s">>, "Psalms">>,
     <<<<"p", "r">>, "Proverbs">>,
     <<<<"p", "r", "o">>, "Proverbs">>,
     <<<<"p", "r", "o", "v">>, "Proverbs">>,
     <<<<"e", "c">>, "Ecclesiastes">>,
     <<<<"e", "c", "c">>, "Ecclesiastes">>,
     <<<<"e", "c", "c", "l">>, "Ecclesiastes">>,
     <<<<"s", "o">>, "Song of Solomon">>,
     <<<<"s", "o", "n", "g">>, "Song of Solomon">>,
     <<<<"s", "o", "s">>, "Song of Solomon">>,
     <<<<"i", "s", "a">>, "Isaiah">>,
     <<<<"i", "s">>, "Isaiah">>,
     <<<<"j", "e", "r">>, "Jeremiah">>,
     <<<<"j", "e">>, "Jeremiah">>,
     <<<<"l", "a">>, "Lamentations">>,
     <<<<"l", "a", "m">>, "Lamentations">>,
     <<<<"e", "z", "e">>, "Ezekiel">>,
     <<<<"e", "z", "e", "k">>, "Ezekiel">>,
     <<<<"d", "a">>, "Daniel">>,
     <<<<"d", "a", "n">>, "Daniel">>,
     <<<<"h", "o">>, "Hosea">>,
     <<<<"h", "o", "s">>, "Hosea">>,
     <<<<"j", "o", "e">>, "Joel">>,
     <<<<"j", "o", "e", "l">>, "Joel">>,
     <<<<"a", "m">>, "Amos">>,
     <<<<"a", "m", "o">>, "Amos">>,
     <<<<"a", "m", "o", "s">>, "Amos">>,
     <<<<"o", "b">>, "Obadiah">>,
     <<<<"o", "b", "a">>, "Obadiah">>,
     <<<<"o", "b", "a", "d">>, "Obadiah">>,
     <<<<"j", "o", "n">>, "Jonah">>,
     <<<<"j", "o", "n", "a">>, "Jonah">>,
     <<<<"j", "o", "n", "a", "h">>, "Jonah">>,
     <<<<"m", "i", "c">>, "Micah">>,
     <<<<"m", "i">>, "Micah">>,
     <<<<"n", "a">>, "Nahum">>,
     <<<<"n", "a", "h">>, "Nahum">>,
     <<<<"h", "a", "b">>, "Habakkuk">>,
     <<<<"z", "e", "p">>, "Zephaniah">>,
     <<<<"z", "e", "p", "h">>, "Zephaniah">>,
     <<<<"h", "a", "g">>, "Haggai">>,
     <<<<"z", "e", "c">>, "Zechariah">>,
     <<<<"z", "e", "c", "h">>, "Zechariah">>,
     <<<<"m", "a", "l">>, "Malachi">>,
     <<<<"m", "t">>, "Matthew">>,
     <<<<"m", "a", "t">>, "Matthew">>,
     <<<<"m", "a", "t", "t">>, "Matthew">>,
     <<<<"m", "k">>, "Mark">>,
     <<<<"m", "a", "r">>, "Mark">>,
     <<<<"m", "a", "r", "k">>, "Mark">>,
     <<<<"l", "u">>, "Luke">>,
     <<<<"l", "u", "k">>, "Luke">>,
     <<<<"l", "u", "k", "e">>, "Luke">>,
     <<<<"j", "o", "h">>, "John">>,
     <<<<"j", "o", "h", "n">>, "John">>,
     <<<<"j", "n">>, "John">>,
     <<<<"a", "c">>, "Acts">>,
     <<<<"a", "c", "t">>, "Acts">>,
     <<<<"a", "c", "t", "s">>, "Acts">>,
     <<<<"r", "o">>, "Romans">>,
     <<<<"r", "o", "m">>, "Romans">>,
     <<<<"1", "c", "o">>, "1 Corinthians">>,
     <<<<"1", "c", "o", "r">>, "1 Corinthians">>,
     <<<<"2", "c", "o">>, "2 Corinthians">>,
     <<<<"2", "c", "o", "r">>, "2 Corinthians">>,
     <<<<"g", "a">>, "Galatians">>,
     <<<<"g", "a", "l">>, "Galatians">>,
     <<<<"e", "p", "h">>, "Ephesians">>,
     <<<<"p", "h", "p">>, "Philippians">>,
     <<<<"p", "h", "i", "l">>, "Philippians">>,
     <<<<"c", "o", "l">>, "Colossians">>,
     <<<<"1", "t", "h">>, "1 Thessalonians">>,
     <<<<"1", "t", "h", "e", "s", "s">>, "1 Thessalonians">>,
     <<<<"2", "t", "h">>, "2 Thessalonians">>,
     <<<<"2", "t", "h", "e", "s", "s">>, "2 Thessalonians">>,
     <<<<"1", "t", "i">>, "1 Timothy">>,
     <<<<"1", "t", "i", "m">>, "1 Timothy">>,
     <<<<"2", "t", "i">>, "2 Timothy">>,
     <<<<"2", "t", "i", "m">>, "2 Timothy">>,
     <<<<"t", "i", "t">>, "Titus">>,
     <<<<"t", "i", "t", "u", "s">>, "Titus">>,
     <<<<"p", "h", "m">>, "Philemon">>,
     <<<<"p", "h", "i", "l", "e">>, "Philemon">>,
     <<<<"p", "h", "i", "l", "e", "m">>, "Philemon">>,
     <<<<"h", "e", "b">>, "Hebrews">>,
     <<<<"j", "a", "s">>, "James">>,
     <<<<"j", "a", "m">>, "James">>,
     <<<<"j", "a", "m", "e", "s">>, "James">>,
     <<<<"1", "p", "e">>, "1 Peter">>,
     <<<<"1", "p", "e", "t">>, "1 Peter">>,
     <<<<"2", "p", "e">>, "2 Peter">>,
     <<<<"2", "p", "e", "t">>, "2 Peter">>,
     <<<<"1", "j", "o">>, "1 John">>,
     <<<<"1", "j", "o", "h">>, "1 John">>,
     <<<<"1", "j", "o", "h", "n">>, "1 John">>,
     <<<<"2", "j", "o">>, "2 John">>,
     <<<<"2", "j", "o", "h">>, "2 John">>,
     <<<<"2", "j", "o", "h", "n">>, "2 John">>,
     <<<<"3", "j", "o">>, "3 John">>,
     <<<<"3", "j", "o", "h">>, "3 John">>,
     <<<<"3", "j", "o", "h", "n">>, "3 John">>,
     <<<<"j", "u", "d", "e">>, "Jude">>,
     <<<<"j", "u", "d">>, "Jude">>,
     <<<<"r", "e">>, "Revelation">>,
     <<<<"r", "e", "v">>, "Revelation">>
  >>

BOOKS ==
  <<
     <<<<"0", "0">>, "Preface">>,
     <<<<"0", "1">>, "Genesis">>,
     <<<<"0", "2">>, "Exodus">>,
     <<<<"0", "3">>, "Leviticus">>,
     <<<<"0", "4">>, "Numbers">>,
     <<<<"0", "5">>, "Deuteronomy">>,
     <<<<"0", "6">>, "Joshua">>,
     <<<<"0", "7">>, "Judges">>,
     <<<<"0", "8">>, "Ruth">>,
     <<<<"0", "9">>, "1 Samuel">>,
     <<<<"1", "0">>, "2 Samuel">>,
     <<<<"1", "1">>, "1 Kings">>,
     <<<<"1", "2">>, "2 Kings">>,
     <<<<"1", "3">>, "1 Chronicles">>,
     <<<<"1", "4">>, "2 Chronicles">>,
     <<<<"1", "5">>, "Ezra">>,
     <<<<"1", "6">>, "Nehemiah">>,
     <<<<"1", "7">>, "Esther">>,
     <<<<"1", "8">>, "Job">>,
     <<<<"1", "9">>, "Psalms">>,
     <<<<"2", "0">>, "Proverbs">>,
     <<<<"2", "1">>, "Ecclesiastes">>,
     <<<<"2", "2">>, "Song of Solomon">>,
     <<<<"2", "3">>, "Isaiah">>,
     <<<<"2", "4">>, "Jeremiah">>,
     <<<<"2", "5">>, "Lamentations">>,
     <<<<"2", "6">>, "Ezekiel">>,
     <<<<"2", "7">>, "Daniel">>,
     <<<<"2", "8">>, "Hosea">>,
     <<<<"2", "9">>, "Joel">>,
     <<<<"3", "0">>, "Amos">>,
     <<<<"3", "1">>, "Obadiah">>,
     <<<<"3", "2">>, "Jonah">>,
     <<<<"3", "3">>, "Micah">>,
     <<<<"3", "4">>, "Nahum">>,
     <<<<"3", "5">>, "Habakkuk">>,
     <<<<"3", "6">>, "Zephaniah">>,
     <<<<"3", "7">>, "Haggai">>,
     <<<<"3", "8">>, "Zechariah">>,
     <<<<"3", "9">>, "Malachi">>,
     <<<<"4", "0">>, "Matthew">>,
     <<<<"4", "1">>, "Mark">>,
     <<<<"4", "2">>, "Luke">>,
     <<<<"4", "3">>, "John">>,
     <<<<"4", "4">>, "Acts">>,
     <<<<"4", "5">>, "Romans">>,
     <<<<"4", "6">>, "1 Corinthians">>,
     <<<<"4", "7">>, "2 Corinthians">>,
     <<<<"4", "8">>, "Galatians">>,
     <<<<"4", "9">>, "Ephesians">>,
     <<<<"5", "0">>, "Philippians">>,
     <<<<"5", "1">>, "Colossians">>,
     <<<<"5", "2">>, "1 Thessalonians">>,
     <<<<"5", "3">>, "2 Thessalonians">>,
     <<<<"5", "4">>, "1 Timothy">>,
     <<<<"5", "5">>, "2 Timothy">>,
     <<<<"5", "6">>, "Titus">>,
     <<<<"5", "7">>, "Philemon">>,
     <<<<"5", "8">>, "Hebrews">>,
     <<<<"5", "9">>, "James">>,
     <<<<"6", "0">>, "1 Peter">>,
     <<<<"6", "1">>, "2 Peter">>,
     <<<<"6", "2">>, "1 John">>,
     <<<<"6", "3">>, "2 John">>,
     <<<<"6", "4">>, "3 John">>,
     <<<<"6", "5">>, "Jude">>,
     <<<<"6", "6">>, "Revelation">>
  >>

\* dict.get: of the entries of a dict literal with the same key, the last wins
DictGet(table, key) ==
  LET hits == {i \in 1..Len(table) : table[i][1] = key}
  IN  IF hits = {} THEN None
      ELSE table[CHOOSE i \in hits : \A j \in hits : j <= i][2]

-----------------------------------------------------------------------------
\* parse_passage_ref.  re.match anchors the pattern
\*     (\d?\s*[A-Za-z]+)\s*(\d+):?([\d,\-]*)
\* at the start of the string.  Each of its pieces is greedy, and no shorter
\* choice of a piece lets a later piece match (the piece that follows a run
\* never accepts a character of the run), so the match is the left-to-right
\* greedy scan.

\* PassageMatch with the optional leading digit of the pattern left out
PassageMatchNoLeadingDigit(s) ==
  LET i2 == SkipSet(s, 1, Whitespace)
      i3 == SkipSet(s, i2, Letter)
      i4 == SkipSet(s, i3, Whitespace)
      i5 == SkipSet(s, i4, Digit)
      i6 == IF i5 <= Len(s) /\ s[i5] = ":" THEN i5 + 1 ELSE i5
      i7 == SkipSet(s, i6, Digit \cup {",", "-"})
  IN  IF i3 > i2 /\ i5 > i4
      THEN [group1 |-> SubSeq(s, 1, i3 - 1),
            group2 |-> SubSeq(s, i4, i5 - 1),
            group3 |-> SubSeq(s, i6, i7 - 1)]
      ELSE NoneRecord

\* the end indices (1-based, exclusive) of the pieces of the pattern
PassageMatch(s) ==
  LET i1 == IF 1 <= Len(s) /\ s[1] \in Digit THEN 2 ELSE 1
      i2 == SkipSet(s, i1, Whitespace)
      i3 == SkipSet(s, i2, Letter)
      i4 == SkipSet(s, i3, Whitespace)
      i5 == SkipSet(s, i4, Digit)
      i6 == IF i5 <= Len(s) /\ s[i5] = ":" THEN i5 + 1 ELSE i5
      i7 == SkipSet(s, i6, Digit \cup {",", "-"})
  IN  IF i3 > i2 /\ i5 > i4
      THEN [group1 |-> SubSeq(s, 1, i3 - 1),
            group2 |-> SubSeq(s, i4, i5 - 1),
            group3 |-> SubSeq(s, i6, i7 - 1)]
      ELSE NoneRecord

parse_passage_ref(raw) ==
  LET s == Strip(ReplaceChar(raw, "+", " "))
      m == PassageMatch(s)
  IN  IF m = NoneRecord THEN NoneRecord
      ELSE LET book_abbr == RemoveChar(Lower(m.group1), " ")
               chapter == m.group2
               verses == m.group3
               book_name == DictGet(PASSAGE_BOOK_MAP, book_abbr)
           IN  IF book_name = None THEN NoneRecord
               ELSE [book |-> book_name,
                     chapter |-> IntOf(chapter),
                     verses |-> verses,
                     display |-> <<book_name, " ">> \o chapter
                                 \o (IF verses # <<>> THEN <<":">> \o verses ELSE <<>>)]


-----------------------------------------------------------------------------
(* The values the variables of a function hold while another one runs.     *)

ParseIdle == passage_str = <<>> /\ given = NoneRecord /\ ref_result = NoneRecord

ExtractIdle ==
  /\ stripped = <<>> /\ anchors = <<>> /\ context_chars = 0 /\ text_content = <<>>
  /\ anchor_i = 0 /\ references = <<>> /\ parsed = NoneRecord /\ display_text = <<>>
  /\ display_clean = <<>> /\ pos = -1 /\ start = 0 /\ end = 0 /\ context = <<>>

HtmlIdle == text_parts = <<>> /\ in_script = FALSE /\ in_style = FALSE /\ fed = <<>>

StructIdle == htm_files = <<>> /\ structure = <<>>

MainIdle ==
  /\ input_files = {} /\ contents = <<>>
  /\ file_i = 0 /\ failing = {} /\ documents = <<>> /\ total_refs = 0
  /\ diagnostics = <<>>

-----------------------------------------------------------------------------
(* Specification of parse_passage_ref: the argument is drawn from the      *)
(* tokens "<abbr> <n>" and "<abbr>+<n>" of the table and from every short  *)
(* string over TokenAlphabet; ParsePassageRef applies the function.        *)

MaxChapter == 200
MaxTokenLen == 4

TokenAlphabet == {"P", "s", "x", "0", "1", "7", "+", " ", ":", "-"}

RECURSIVE StringsUpTo(_, _)
StringsUpTo(A, n) ==
  IF n = 0 THEN {<<>>}
  ELSE LET shorter == StringsUpTo(A, n - 1)
       IN  shorter \cup {Append(s, c) : s \in shorter, c \in A}

InitParse ==
  /\ pc = "parse"
  /\ ref_result = NoneRecord
  /\ \/ \E i \in 1..Len(PASSAGE_BOOK_MAP), n \in 1..MaxChapter, sep \in {" ", "+"} :
          /\ given = [abbr |-> PASSAGE_BOOK_MAP[i][1], chapter |-> n]
          /\ passage_str = PASSAGE_BOOK_MAP[i][1] \o <<sep>> \o StrOf(n)
     \/ /\ given = NoneRecord
        /\ passage_str \in StringsUpTo(TokenAlphabet, MaxTokenLen)
  /\ ExtractIdle /\ HtmlIdle /\ StructIdle /\ MainIdle

ParsePassageRef ==
  /\ pc = "parse"
  /\ ref_result' = parse_passage_ref(passage_str)
  /\ pc' = "parsed"
  /\ UNCHANGED <<passage_str, given, extractVars, htmlVars, structVars, mainVars>>

SpecParse == InitParse /\ [][ParsePassageRef]_vars

(* C4: for every key abbr of PASSAGE_BOOK_MAP and every chapter n from 1   *)
(* to MaxChapter, parse_passage_ref of "<abbr> <n>" or "<abbr>+<n>"        *)
(* returns a reference, not None, whose book is PASSAGE_BOOK_MAP[abbr] and *)
(* whose chapter is n.                                                     *)
C4_ParserTotalByTable ==
  (pc = "parsed" /\ given # NoneRecord) =>
     /\ ref_result # NoneRecord
     /\ ref_result.book = DictGet(PASSAGE_BOOK_MAP, given.abbr)
     /\ ref_result.chapter = given.chapter

\* the token "1kings+200" has been parsed to 1 Kings 200
C4_Witness ==
  /\ pc = "parsed"
  /\ given = [abbr |-> <<"1", "k", "i", "n", "g", "s">>, chapter |-> MaxChapter]
  /\ passage_str[7] = "+"
  /\ ref_result # NoneRecord
  /\ ref_result.book = "1 Kings"

(* C5: every reference parse_passage_ref returns has a chapter that is a   *)
(* positive integer, whatever the token, also when its chapter digits are  *)
(* "0" or have leading zeros.                                              *)
C5_ChapterPositive ==
  (pc = "parsed" /\ ref_result # NoneRecord) => ref_result.chapter >= 1


-----------------------------------------------------------------------------
(* HTMLTextExtractor: the handlers as functions of the extractor's fields. *)

NewExtractor == [text_parts |-> <<>>, in_script |-> FALSE, in_style |-> FALSE]

handle_starttag(x, tag) ==
  IF tag = "script" THEN [x EXCEPT !.in_script = TRUE]
  ELSE IF tag = "style" THEN [x EXCEPT !.in_style = TRUE]
  ELSE x

\* handle_endtag clearing both flags at the end of either element
handle_endtag_clears_both(x, tag) ==
  IF tag = "script" \/ tag = "style"
  THEN [x EXCEPT !.in_script = FALSE, !.in_style = FALSE]
  ELSE x

handle_endtag(x, tag) ==
  IF tag = "script" THEN [x EXCEPT !.in_script = FALSE]
  ELSE IF tag = "style" THEN [x EXCEPT !.in_style = FALSE]
  ELSE x

handle_data(x, data) ==
  IF ~x.in_script /\ ~x.in_style
  THEN [x EXCEPT !.text_parts = Append(x.text_parts, data)]
  ELSE x

\* ' '.join(parts)
RECURSIVE JoinSpace(_)
JoinSpace(parts) ==
  IF parts = <<>> THEN <<>>
  ELSE IF Len(parts) = 1 THEN parts[1]
  ELSE parts[1] \o <<" ">> \o JoinSpace(Tail(parts))

get_text(x) == JoinSpace(x.text_parts)

\* strip_html of a string that holds no markup (no "<", no "&"): the parser
\* hands a non-empty string to handle_data in one piece, an empty one not at all
strip_html_text(s) ==
  get_text(IF s = <<>> THEN NewExtractor ELSE handle_data(NewExtractor, s))

-----------------------------------------------------------------------------
(* extract_references_with_context.                                        *)

\* re.sub(r'\s+', ' ', s): every run of whitespace becomes one space
RECURSIVE CollapseWhitespace(_)
CollapseWhitespace(s) ==
  IF s = <<>> THEN <<>>
  ELSE IF Head(s) \in Whitespace
       THEN <<" ">> \o CollapseWhitespace(SubSeq(s, SkipSet(s, 1, Whitespace), Len(s)))
       ELSE <<Head(s)>> \o CollapseWhitespace(Tail(s))

\* re.sub(r'\s+', ' ', s).strip()
Normalize(s) == Strip(CollapseWhitespace(s))

\* str.find: the lowest offset at which key occurs in text, -1 if none
Find(text, key) ==
  LET hits == {p \in 0..(Len(text) - Len(key)) : Slice(text, p, p + Len(key)) = key}
  IN  IF hits = {} THEN -1 ELSE CHOOSE p \in hits : \A q \in hits : p <= q

Max(a, b) == IF a >= b THEN a ELSE b
Min(a, b) == IF a <= b THEN a ELSE b

\* the characters of ' .\n'
Boundary == {" ", ".", "\n"}

\* WidenStart testing the character before the boundary instead of the one at it
RECURSIVE WidenStartOffByOne(_, _)
WidenStartOffByOne(text, s) ==
  IF s > 0 /\ text[s] \notin Boundary THEN WidenStartOffByOne(text, s - 1) ELSE s

\* while start > 0 and text_content[start] not in ' .\n': start -= 1
RECURSIVE WidenStart(_, _)
WidenStart(text, s) ==
  IF s > 0 /\ text[s + 1] \notin Boundary THEN WidenStart(text, s - 1) ELSE s

\* while end < len(text_content) and text_content[end] not in ' .\n': end += 1
RECURSIVE WidenEnd(_, _)
WidenEnd(text, e) ==
  IF e < Len(text) /\ text[e + 1] \notin Boundary THEN WidenEnd(text, e + 1) ELSE e

Ellipsis == <<".", ".", ".">>

\* ContextOf slicing from the character after start
ContextOfShortSlice(text, s, e) ==
  LET sliced == Strip(Slice(text, s + 1, e))
      prefixed == IF s > 0 THEN Ellipsis \o sliced ELSE sliced
  IN  IF e < Len(text) THEN prefixed \o Ellipsis ELSE prefixed

\* ContextOf with the prefix marker added whatever the start offset
ContextOfAlwaysPrefixed(text, s, e) ==
  LET sliced == Strip(Slice(text, s, e))
      prefixed == Ellipsis \o sliced
  IN  IF e < Len(text) THEN prefixed \o Ellipsis ELSE prefixed

\* lines 229-233: the slice, trimmed, with the markers
ContextOf(text, s, e) ==
  LET sliced == Strip(Slice(text, s, e))
      prefixed == IF s > 0 THEN Ellipsis \o sliced ELSE sliced
  IN  IF e < Len(text) THEN prefixed \o Ellipsis ELSE prefixed

\* lines 208-235: the locals of one iteration of the loop over the anchors, for
\* an anchor whose token parses (start and end are set only when pos is not -1)
AnchorLocals(text, match, cc) ==
  LET d == Strip(match.display)
      key == Normalize(strip_html_text(d))
      at == Find(text, key)
      s == WidenStart(text, Max(0, at - cc))
      e == WidenEnd(text, Min(Len(text), at + Len(key) + cc))
  IN  [parsed |-> parse_passage_ref(match.passage),
       display_text |-> d,
       display_clean |-> key,
       pos |-> at,
       start |-> IF at # -1 THEN s ELSE 0,
       end |-> IF at # -1 THEN e ELSE 0,
       context |-> IF at # -1 THEN ContextOf(text, s, e) ELSE d]

\* lines 237-241
ReferenceOf(loc) ==
  [ref |-> loc.parsed, display |-> loc.display_text, context |-> loc.context]

\* lines 207-243: the references of the anchors ms, in order
RECURSIVE ReferencesOf(_, _, _)
ReferencesOf(text, ms, cc) ==
  IF ms = <<>> THEN <<>>
  ELSE LET loc == AnchorLocals(text, Head(ms), cc)
       IN  (IF loc.parsed = NoneRecord THEN <<>> ELSE <<ReferenceOf(loc)>>)
           \o ReferencesOf(text, Tail(ms), cc)

\* the function as a whole, on a document given as the text strip_html makes of
\* it and the anchors the pattern of line 201 finds in it
extract_references_with_context(doc, cc) ==
  ReferencesOf(Normalize(doc.stripped), doc.anchors, cc)

\* lines 198-205
ExtractBegin ==
  /\ pc = "extract"
  /\ references' = <<>>
  /\ text_content' = Normalize(stripped)
  /\ pc' = "anchors"
  /\ UNCHANGED <<stripped, anchors, context_chars, anchor_i, parsed, display_text,
                 display_clean, pos, start, end, context,
                 parseVars, htmlVars, structVars, mainVars>>

\* SkipAnchor keeping the anchor with a degraded reference instead of dropping it
SkipAnchorKept ==
  /\ pc = "anchors" /\ anchor_i < Len(anchors)
  /\ LET match == anchors[anchor_i + 1]
         d == Strip(match.display)
     IN  /\ parse_passage_ref(match.passage) = NoneRecord
         /\ display_text' = d
         /\ parsed' = NoneRecord
         /\ references' = Append(references,
                                 [ref |-> NoneRecord, display |-> d, context |-> d])
  /\ anchor_i' = anchor_i + 1
  /\ UNCHANGED <<pc, stripped, anchors, context_chars, text_content,
                 display_clean, pos, start, end, context,
                 parseVars, htmlVars, structVars, mainVars>>

\* lines 208-213: the token of the next anchor does not parse
SkipAnchor ==
  /\ pc = "anchors" /\ anchor_i < Len(anchors)
  /\ LET match == anchors[anchor_i + 1]
     IN  /\ parse_passage_ref(match.passage) = NoneRecord
         /\ display_text' = Strip(match.display)
         /\ parsed' = NoneRecord
  /\ anchor_i' = anchor_i + 1
  /\ UNCHANGED <<pc, stripped, anchors, context_chars, text_content, references,
                 display_clean, pos, start, end, context,
                 parseVars, htmlVars, structVars, mainVars>>

\* lines 208-233 and 237-241: the token parses and the display text is found
AppendFound ==
  /\ pc = "anchors" /\ anchor_i < Len(anchors)
  /\ LET loc == AnchorLocals(text_content, anchors[anchor_i + 1], context_chars)
     IN  /\ loc.parsed # NoneRecord
         /\ loc.pos # -1
         /\ display_text' = loc.display_text /\ parsed' = loc.parsed
         /\ display_clean' = loc.display_clean /\ pos' = loc.pos
         /\ start' = loc.start /\ end' = loc.end /\ context' = loc.context
         /\ references' = Append(references, ReferenceOf(loc))
  /\ anchor_i' = anchor_i + 1
  /\ UNCHANGED <<pc, stripped, anchors, context_chars, text_content,
                 parseVars, htmlVars, structVars, mainVars>>

\* lines 208-217 and 234-241: the token parses and the display text is not found
AppendNotFound ==
  /\ pc = "anchors" /\ anchor_i < Len(anchors)
  /\ LET loc == AnchorLocals(text_content, anchors[anchor_i + 1], context_chars)
     IN  /\ loc.parsed # NoneRecord
         /\ loc.pos = -1
         /\ display_text' = loc.display_text /\ parsed' = loc.parsed
         /\ display_clean' = loc.display_clean /\ pos' = loc.pos
         /\ context' = loc.context
         /\ references' = Append(references, ReferenceOf(loc))
  /\ anchor_i' = anchor_i + 1
  /\ UNCHANGED <<pc, stripped, anchors, context_chars, text_content, start, end,
                 parseVars, htmlVars, structVars, mainVars>>

\* line 243
ExtractReturn ==
  /\ pc = "anchors" /\ anchor_i = Len(anchors)
  /\ pc' = "returned"
  /\ UNCHANGED <<extractVars, parseVars, htmlVars, structVars, mainVars>>

(* Specification of extract_references_with_context.  Either the document  *)
(* holds one anchor with a parseable token, and its text and the anchor's  *)
(* display text range over every short string; or it holds up to           *)
(* MaxAnchors anchors drawn from AnchorPool over a text of SampleTexts.    *)
(* context_chars, 200 in the program, is a positive window half-width     *)
(* small enough for the short texts to be cut by it.                       *)
(* The text and the anchors are drawn independently of each other: the    *)
(* pattern of line 201 is run on the raw markup, so it also finds an       *)
(* anchor inside a script element, whose display text strip_html leaves    *)
(* out of the text.                                                        *)

MaxTextLen == 5
MaxDisplayLen == 2
MaxContextChars == 2
MaxAnchors == 3

TextAlphabet == {"a", " ", "."}

\* a token that parses ("Ps+1")
GoodToken == <<"P", "s", "+", "1">>

AnchorPool ==
  { [passage |-> GoodToken, display |-> <<"a", "b">>],
    [passage |-> <<"1", "C", "o", "+", "6", ":", "2">>, display |-> <<" ", "c", "\n", "d", " ">>],
    [passage |-> GoodToken, display |-> <<"z">>],
    [passage |-> <<"G", "e", "n", "e", "s", "i", "s">>, display |-> <<"a", "b">>],
    [passage |-> <<"X", "y", "z", "+", "4", ":", "2">>, display |-> <<"c", " ", "d">>],
    [passage |-> <<"L", "u", "+", "2", "3", ":", "5", "1">>, display |-> <<" ">>] }

SampleTexts ==
  { <<"x", " ", "a", "b", ".", "\n", " ", "c", "\t", "d", " ", "y">>,
    <<"a", "b">>,
    <<>> }

RECURSIVE SeqsUpTo(_, _)
SeqsUpTo(S, n) ==
  IF n = 0 THEN {<<>>}
  ELSE LET shorter == SeqsUpTo(S, n - 1)
       IN  shorter \cup {Append(q, x) : q \in shorter, x \in S}

InitExtract ==
  /\ pc = "extract"
  /\ \/ /\ stripped \in StringsUpTo(TextAlphabet, MaxTextLen)
        /\ \E d \in StringsUpTo(TextAlphabet, MaxDisplayLen) \ {<<>>} :
              anchors = <<[passage |-> GoodToken, display |-> d]>>
     \/ /\ stripped \in SampleTexts
        /\ anchors \in SeqsUpTo(AnchorPool, MaxAnchors)
  /\ context_chars \in 1..MaxContextChars
  /\ text_content = <<>> /\ anchor_i = 0 /\ references = <<>>
  /\ parsed = NoneRecord /\ display_text = <<>> /\ display_clean = <<>>
  /\ pos = -1 /\ start = 0 /\ end = 0 /\ context = <<>>
  /\ ParseIdle /\ HtmlIdle /\ StructIdle /\ MainIdle

NextExtract ==
  \/ ExtractBegin
  \/ SkipAnchor
  \/ AppendFound
  \/ AppendNotFound
  \/ ExtractReturn

SpecExtract == InitExtract /\ [][NextExtract]_vars


\* the last loop iteration found the cleaned display text of a parseable anchor
FoundMatch ==
  /\ pc \in {"anchors", "returned"}
  /\ anchor_i >= 1
  /\ parsed # NoneRecord
  /\ pos # -1

\* the context of the reference the last iteration appended
LastContext == references[Len(references)].context

StartsWith(s, p) == Len(s) >= Len(p) /\ SubSeq(s, 1, Len(p)) = p

EndsWith(s, p) == Len(s) >= Len(p) /\ SubSeq(s, Len(s) - Len(p) + 1, Len(s)) = p

\* the number of ellipsis markers lines 230-233 add
MarkersAdded ==
  (IF start > 0 THEN 1 ELSE 0) + (IF end < Len(text_content) THEN 1 ELSE 0)

(* C1, as stated: for a found match the context is never shorter than the  *)
(* cleaned display text and never longer than the normalized text, the     *)
(* ellipsis markers included.                                              *)
C1_ContextBounds ==
  FoundMatch =>
     /\ Len(LastContext) >= Len(display_clean)
     /\ Len(LastContext) <= Len(text_content)

(* C1, amended: for a found match the context is never shorter than the    *)
(* cleaned display text; without the ellipsis markers added to it, it is   *)
(* never longer than the normalized text, and with them it is at most four *)
(* characters longer.                                                      *)
C1_ContextBoundsAmended ==
  FoundMatch =>
     /\ Len(LastContext) >= Len(display_clean)
     /\ Len(LastContext) - Len(Ellipsis) * MarkersAdded <= Len(text_content)
     /\ Len(LastContext) <= Len(text_content) + 4

\* a found match whose context, with both markers, is longer than the text
C1_Witness ==
  /\ FoundMatch
  /\ display_clean # <<>>
  /\ MarkersAdded = 2
  /\ Len(LastContext) = Len(text_content) + 4

(* C2: whenever the cleaned display text of a parseable anchor is found,   *)
(* the context is not the empty string, also for a display text that is    *)
(* empty after cleaning.                                                   *)
C2_ContextNeverEmpty == FoundMatch => LastContext # <<>>

(* C3, as stated: for a found match the context begins with the ellipsis   *)
(* marker if and only if the widened start offset is greater than 0, and   *)
(* ends with it if and only if the widened end offset is less than the     *)
(* length of the normalized text.                                          *)
C3_EllipsisIff ==
  FoundMatch =>
     /\ StartsWith(LastContext, Ellipsis) <=> start > 0
     /\ EndsWith(LastContext, Ellipsis) <=> end < Len(text_content)

(* C3, amended: for a found match the context is the trimmed slice of the  *)
(* text from start to end, with the marker put before it if and only if    *)
(* start > 0 and after it if and only if end < length; so start > 0        *)
(* implies the context begins with the marker and end < length implies it  *)
(* ends with it (the converses fail for a slice that itself begins or ends *)
(* with periods).                                                          *)
C3_EllipsisAdded ==
  FoundMatch =>
     LET body == Strip(Slice(text_content, start, end))
         before == IF start > 0 THEN Ellipsis ELSE <<>>
         after == IF end < Len(text_content) THEN Ellipsis ELSE <<>>
     IN  /\ LastContext = before \o body \o after
         /\ start > 0 => StartsWith(LastContext, Ellipsis)
         /\ end < Len(text_content) => EndsWith(LastContext, Ellipsis)

\* a found match with the marker before the context and none after it
C3_Witness ==
  /\ FoundMatch
  /\ start > 0
  /\ end = Len(text_content)
  /\ StartsWith(LastContext, Ellipsis)
  /\ ~EndsWith(LastContext, Ellipsis)

(* C9: for a found match at offset pos with a key of length L, after the   *)
(* widening loops start <= pos and end >= pos + L, start is 0 or the       *)
(* character at start is a space, period or newline, end is the text       *)
(* length or the character at end is one of these, and the context         *)
(* contains the whole key.                                                 *)
C9_WindowOnBoundaries ==
  FoundMatch =>
     /\ start <= pos
     /\ end >= pos + Len(display_clean)
     /\ start = 0 \/ text_content[start + 1] \in Boundary
     /\ end = Len(text_content) \/ text_content[end + 1] \in Boundary
     /\ Find(LastContext, display_clean) # -1

\* a found match whose window start was widened back to a period inside the text
C9_Witness ==
  /\ FoundMatch
  /\ display_clean # <<>>
  /\ 0 < start /\ start < pos - context_chars
  /\ text_content[start + 1] = "."
  /\ end >= pos + Len(display_clean)

\* the anchors whose token parses, in document order
ParseableAnchors ==
  SelectSeq(anchors, LAMBDA a : parse_passage_ref(a.passage) # NoneRecord)

(* C6: extract_references_with_context returns exactly one reference for   *)
(* each anchor whose token parses, found or not, and none for an anchor    *)
(* whose token does not; the references keep the order of their anchors,   *)
(* and each is the one its own anchor gives: its parsed token, its trimmed *)
(* display text, and a context holding the cleaned display text when that  *)
(* is found in the text and equal to the display text when it is not.      *)
C6_OneReferencePerParseableAnchor ==
  pc = "returned" =>
     /\ Len(references) = Len(ParseableAnchors)
     /\ \A k \in 1..Len(references) :
           LET a == ParseableAnchors[k]
               d == Strip(a.display)
               key == Normalize(d)
           IN  /\ references[k].ref = parse_passage_ref(a.passage)
               /\ references[k].display = d
               /\ Find(text_content, key) = -1 => references[k].context = d
               /\ Find(text_content, key) # -1 =>
                     Find(references[k].context, key) # -1

\* three anchors: the first has no chapter and is dropped, the second is kept
\* with its display text as context, the third is kept with a real context
C6_Witness ==
  /\ pc = "returned"
  /\ Len(anchors) = 3
  /\ parse_passage_ref(anchors[1].passage) = NoneRecord
  /\ Len(references) = 2
  /\ references[1].context = <<"z">>
  /\ references[2].ref.book = "1 Corinthians"
  /\ Len(references[2].context) > Len(references[2].display)


-----------------------------------------------------------------------------
(* Specification of HTMLTextExtractor: the parser calls the three handlers *)
(* in any order, with any tag of Tags and any text of DataPool; fed keeps  *)
(* the calls made so far.                                                  *)

MaxEvents == 5

Tags == {"script", "style", "p"}

DataPool == {<<"x">>, <<"y", "z">>}

Extractor == [text_parts |-> text_parts, in_script |-> in_script, in_style |-> in_style]

SetExtractor(x) ==
  /\ text_parts' = x.text_parts
  /\ in_script' = x.in_script
  /\ in_style' = x.in_style

\* __init__
InitHtml ==
  /\ pc = "feed"
  /\ text_parts = NewExtractor.text_parts
  /\ in_script = NewExtractor.in_script
  /\ in_style = NewExtractor.in_style
  /\ fed = <<>>
  /\ ParseIdle /\ ExtractIdle /\ StructIdle /\ MainIdle

HandleStarttag ==
  /\ pc = "feed" /\ Len(fed) < MaxEvents
  /\ \E tag \in Tags :
        /\ SetExtractor(handle_starttag(Extractor, tag))
        /\ fed' = Append(fed, [kind |-> "start", tag |-> tag, data |-> <<>>])
  /\ UNCHANGED <<pc, parseVars, extractVars, structVars, mainVars>>

HandleEndtag ==
  /\ pc = "feed" /\ Len(fed) < MaxEvents
  /\ \E tag \in Tags :
        /\ SetExtractor(handle_endtag(Extractor, tag))
        /\ fed' = Append(fed, [kind |-> "end", tag |-> tag, data |-> <<>>])
  /\ UNCHANGED <<pc, parseVars, extractVars, structVars, mainVars>>

HandleData ==
  /\ pc = "feed" /\ Len(fed) < MaxEvents
  /\ \E data \in DataPool :
        /\ SetExtractor(handle_data(Extractor, data))
        /\ fed' = Append(fed, [kind |-> "data", tag |-> "", data |-> data])
  /\ UNCHANGED <<pc, parseVars, extractVars, structVars, mainVars>>

NextHtml ==
  \/ HandleStarttag
  \/ HandleEndtag
  \/ HandleData

SpecHtml == InitHtml /\ [][NextHtml]_vars

\* the number of tag elements open before event k of hist, counting nesting: a
\* start tag opens one, an end tag closes the innermost open one, if any
RECURSIVE OpenDepth(_, _, _)
OpenDepth(hist, k, tag) ==
  IF k <= 1 THEN 0
  ELSE LET before == OpenDepth(hist, k - 1, tag)
           ev == hist[k - 1]
       IN  IF ev.kind = "start" /\ ev.tag = tag THEN before + 1
           ELSE IF ev.kind = "end" /\ ev.tag = tag /\ before > 0 THEN before - 1
           ELSE before

\* whether the last start or end tag named tag before event k is a start tag
LastTagIsStart(hist, k, tag) ==
  LET tags == {j \in 1..(k - 1) : hist[j].kind \in {"start", "end"} /\ hist[j].tag = tag}
  IN  /\ tags # {}
      /\ hist[CHOOSE j \in tags : \A i \in tags : i <= j].kind = "start"

\* the text segments among the first k events of hist, in order, whose index is
\* in visible
RECURSIVE SegmentsAt(_, _, _)
SegmentsAt(hist, k, visible) ==
  IF k = 0 THEN <<>>
  ELSE LET rest == SegmentsAt(hist, k - 1, visible)
       IN  IF hist[k].kind = "data" /\ k \in visible THEN Append(rest, hist[k].data) ELSE rest

(* C10, as stated: whatever the events, nested or unbalanced script and    *)
(* style tags included, get_text is the single-space join, in order, of    *)
(* exactly the text segments that lie outside every script region and      *)
(* every style region, a region running from a start tag to its matching   *)
(* end tag.                                                                *)
C10_OutsideEveryRegion ==
  get_text(Extractor) =
     JoinSpace(SegmentsAt(fed, Len(fed),
                 {k \in 1..Len(fed) :
                     OpenDepth(fed, k, "script") = 0 /\ OpenDepth(fed, k, "style") = 0}))

(* C10, amended: get_text is the single-space join, in order, of exactly   *)
(* the text segments that follow no unclosed script or style start tag,    *)
(* where the first end tag after a start tag of its kind closes it         *)
(* whatever the nesting: a segment is left out if and only if the last     *)
(* script tag before it is a start tag or the last style tag before it is  *)
(* a start tag.                                                            *)
C10_OutsideFlatRegions ==
  get_text(Extractor) =
     JoinSpace(SegmentsAt(fed, Len(fed),
                 {k \in 1..Len(fed) :
                     ~LastTagIsStart(fed, k, "script") /\ ~LastTagIsStart(fed, k, "style")}))

\* script opened, style opened, script closed: the text that follows is still
\* inside the style region and is left out, the text after </style> is kept
C10_Witness ==
  /\ Len(fed) = 5
  /\ fed[1].kind = "start" /\ fed[1].tag = "script"
  /\ fed[2].kind = "start" /\ fed[2].tag = "style"
  /\ fed[3].kind = "end" /\ fed[3].tag = "script"
  /\ fed[4].kind = "data"
  /\ fed[5].kind = "end" /\ fed[5].tag = "style"
  /\ get_text(Extractor) = <<>>


-----------------------------------------------------------------------------
(* get_book_code, get_chapter_from_filename and build_book_structure.      *)

AllDigits(s) == \A i \in 1..Len(s) : s[i] \in Digit

\* re.match(r'MHC(\d{2})', filename)
get_book_code(filename) ==
  IF /\ Len(filename) >= 5
     /\ SubSeq(filename, 1, 3) = <<"M", "H", "C">>
     /\ AllDigits(SubSeq(filename, 4, 5))
  THEN SubSeq(filename, 4, 5)
  ELSE <<"0", "0">>

\* re.match(r'MHC\d{2}(\d{3})\.HTM', filename, re.IGNORECASE)
get_chapter_from_filename(filename) ==
  IF /\ Len(filename) >= 12
     /\ Lower(SubSeq(filename, 1, 3)) = <<"m", "h", "c">>
     /\ AllDigits(SubSeq(filename, 4, 8))
     /\ filename[9] = "."
     /\ Lower(SubSeq(filename, 10, 12)) = <<"h", "t", "m">>
  THEN IntOf(SubSeq(filename, 6, 8))
  ELSE 0

\* BOOKS.get(book_code, 'Unknown')
BookName(book_code) ==
  LET name == DictGet(BOOKS, book_code)
  IN  IF name = None THEN "Unknown" ELSE name

Range(q) == {q[i] : i \in 1..Len(q)}

\* q with x put before its first element greater than x
RECURSIVE InsertSorted(_, _)
InsertSorted(q, x) ==
  IF q = <<>> THEN <<x>>
  ELSE IF x <= Head(q) THEN <<x>> \o q
  ELSE <<Head(q)>> \o InsertSorted(Tail(q), x)

\* list.sort() of a list of integers
RECURSIVE SortAscending(_)
SortAscending(q) ==
  IF q = <<>> THEN <<>> ELSE InsertSorted(SortAscending(Tail(q)), Head(q))

\* AccumulateChapters appending the chapter without looking for it in the list
RECURSIVE AccumulateChaptersRepeated(_, _)
AccumulateChaptersRepeated(acc, files) ==
  IF files = <<>> THEN acc
  ELSE LET book_code == get_book_code(Head(files))
           chapter == get_chapter_from_filename(Head(files))
           known == IF book_code \in DOMAIN acc THEN acc
                    ELSE (book_code :> [name |-> BookName(book_code), chapters |-> <<>>]) @@ acc
           added == IF chapter > 0
                    THEN [known EXCEPT ![book_code].chapters = Append(@, chapter)]
                    ELSE known
       IN  AccumulateChaptersRepeated(added, Tail(files))

\* lines 250-261: the loop over the files
RECURSIVE AccumulateChapters(_, _)
AccumulateChapters(acc, files) ==
  IF files = <<>> THEN acc
  ELSE LET book_code == get_book_code(Head(files))
           chapter == get_chapter_from_filename(Head(files))
           known == IF book_code \in DOMAIN acc THEN acc
                    ELSE (book_code :> [name |-> BookName(book_code), chapters |-> <<>>]) @@ acc
           added == IF chapter > 0 /\ chapter \notin Range(known[book_code].chapters)
                    THEN [known EXCEPT ![book_code].chapters = Append(@, chapter)]
                    ELSE known
       IN  AccumulateChapters(added, Tail(files))

\* lines 246-267
build_book_structure(files) ==
  LET acc == AccumulateChapters(<<>>, files)
  IN  [book_code \in DOMAIN acc |->
         [acc[book_code] EXCEPT !.chapters = SortAscending(@)]]

(* Specification of build_book_structure: the file names are any sequence  *)
(* of up to MaxFiles names of FilenamePool, in any order and with repeats. *)

MaxFiles == 3

FilenamePool ==
  { <<"M", "H", "C", "1", "9", "0", "0", "1", ".", "H", "T", "M">>,
    <<"M", "H", "C", "1", "9", "0", "2", "3", ".", "H", "T", "M">>,
    <<"M", "H", "C", "1", "9", "0", "0", "0", ".", "H", "T", "M">>,
    <<"M", "H", "C", "0", "1", "0", "0", "2", ".", "H", "T", "M">>,
    <<"m", "h", "c", "0", "1", "0", "0", "1", ".", "h", "t", "m">>,
    <<"M", "H", "C", "1", "9", ".", "H", "T", "M">>,
    <<"M", "H", "C", "X", "9", "0", "0", "1", ".", "H", "T", "M">>,
    <<"M", "H", "C", "0", "1", "0", "0", "2", ".", "H", "T", "M", "X">> }

InitStruct ==
  /\ pc = "build"
  /\ htm_files \in SeqsUpTo(FilenamePool, MaxFiles)
  /\ structure = <<>>
  /\ ParseIdle /\ ExtractIdle /\ HtmlIdle /\ MainIdle

BuildBookStructure ==
  /\ pc = "build"
  /\ structure' = build_book_structure(htm_files)
  /\ pc' = "built"
  /\ UNCHANGED <<htm_files, parseVars, extractVars, htmlVars, mainVars>>

SpecStruct == InitStruct /\ [][BuildBookStructure]_vars

(* C7: for any sequence of file names, in any order and with repeats,      *)
(* build_book_structure returns an entry for each book code observed, and  *)
(* only for these, whose chapters list is strictly ascending (so without   *)
(* duplicates), never holds 0, and holds exactly the positive chapter      *)
(* numbers of the file names with that book code.                          *)
C7_ChaptersSortedDistinctPositive ==
  pc = "built" =>
     /\ DOMAIN structure = {get_book_code(htm_files[i]) : i \in 1..Len(htm_files)}
     /\ \A book_code \in DOMAIN structure :
          LET chapters == structure[book_code].chapters
          IN  /\ \A i \in 1..(Len(chapters) - 1) : chapters[i] < chapters[i + 1]
              /\ 0 \notin Range(chapters)
              /\ Range(chapters) =
                    {get_chapter_from_filename(htm_files[i]) :
                        i \in {j \in 1..Len(htm_files) :
                                 get_book_code(htm_files[j]) = book_code}} \ {0}

\* MHC19023.HTM, MHC19001.HTM and MHC19023.HTM again give Psalms the chapters 1, 23
C7_Witness ==
  /\ pc = "built"
  /\ Len(htm_files) = 3
  /\ get_chapter_from_filename(htm_files[1]) = 23
  /\ get_chapter_from_filename(htm_files[2]) = 1
  /\ htm_files[3] = htm_files[1]
  /\ DOMAIN structure = {<<"1", "9">>}
  /\ structure[<<"1", "9">>] = [name |-> "Psalms", chapters |-> <<1, 23>>]


-----------------------------------------------------------------------------
(* main.  A file is modelled by its name and by the document read from it, *)
(* given as the text strip_html makes of it and the anchors the pattern of *)
(* line 201 finds in it; a file of failing raises while it is processed,   *)
(* either when it is opened and read or when its references are extracted. *)

\* the characters of the file names, in the order of their code points
CodePointOrder ==
  <<".", "0", "1", "2", "3", "4", "5", "6", "7", "8", "9">> \o UpperLetters \o LowerLetters

CodePoint(c) == CHOOSE i \in 1..Len(CodePointOrder) : CodePointOrder[i] = c

\* a < b for two strings
RECURSIVE StrLess(_, _)
StrLess(a, b) ==
  IF b = <<>> THEN FALSE
  ELSE IF a = <<>> THEN TRUE
  ELSE IF Head(a) # Head(b) THEN CodePoint(Head(a)) < CodePoint(Head(b))
  ELSE StrLess(Tail(a), Tail(b))

\* sorted(names) for a set of names
RECURSIVE Sorted(_)
Sorted(names) ==
  IF names = {} THEN <<>>
  ELSE LET first == CHOOSE n \in names : \A m \in names \ {n} : StrLess(n, m)
       IN  <<first>> \o Sorted(names \ {first})

\* the default of the parameter context_chars
DefaultContextChars == 200

\* lines 294-314: the record of one file
DocumentRecord(filename, doc) ==
  [id |-> filename,
   book_code |-> get_book_code(filename),
   book |-> BookName(get_book_code(filename)),
   chapter |-> get_chapter_from_filename(filename),
   text |-> Normalize(doc.stripped),
   references |-> extract_references_with_context(doc, DefaultContextChars)]

\* lines 278-287
MainBegin ==
  /\ pc = "main"
  /\ htm_files' = Sorted(input_files)
  /\ documents' = <<>>
  /\ total_refs' = 0
  /\ structure' = build_book_structure(htm_files')
  /\ pc' = "batch"
  /\ UNCHANGED <<input_files, contents, file_i, failing, diagnostics,
                 parseVars, extractVars, htmlVars>>

\* ProcessFileExtractFails with the failure raised after line 304 has counted the
\* references
ProcessFileFailsAfterCount ==
  /\ pc = "batch" /\ file_i < Len(htm_files)
  /\ LET filepath == htm_files[file_i + 1]
     IN  /\ filepath \in failing
         /\ total_refs' = total_refs
               + Len(extract_references_with_context(contents[filepath], DefaultContextChars))
         /\ diagnostics' = Append(diagnostics, [file |-> filepath, raised_at |-> 306])
  /\ file_i' = file_i + 1
  /\ UNCHANGED <<pc, input_files, contents, failing, documents, htm_files,
                 structure, parseVars, extractVars, htmlVars>>

\* lines 290-317: one iteration of the batch loop that raises nothing
ProcessFile ==
  /\ pc = "batch" /\ file_i < Len(htm_files)
  /\ LET filepath == htm_files[file_i + 1]
         record == DocumentRecord(filepath, contents[filepath])
     IN  /\ filepath \notin failing
         /\ total_refs' = total_refs + Len(record.references)
         /\ documents' = Append(documents, record)
  /\ file_i' = file_i + 1
  /\ UNCHANGED <<pc, input_files, contents, failing, diagnostics, htm_files,
                 structure, parseVars, extractVars, htmlVars>>

\* lines 291-292 raise; lines 319-320 print the error
ProcessFileOpenFails ==
  /\ pc = "batch" /\ file_i < Len(htm_files)
  /\ LET filepath == htm_files[file_i + 1]
     IN  /\ filepath \in failing
         /\ diagnostics' = Append(diagnostics, [file |-> filepath, raised_at |-> 291])
  /\ file_i' = file_i + 1
  /\ UNCHANGED <<pc, input_files, contents, failing, documents, total_refs,
                 htm_files, structure, parseVars, extractVars, htmlVars>>

\* line 303 raises; lines 319-320 print the error
ProcessFileExtractFails ==
  /\ pc = "batch" /\ file_i < Len(htm_files)
  /\ LET filepath == htm_files[file_i + 1]
     IN  /\ filepath \in failing
         /\ diagnostics' = Append(diagnostics, [file |-> filepath, raised_at |-> 303])
  /\ file_i' = file_i + 1
  /\ UNCHANGED <<pc, input_files, contents, failing, documents, total_refs,
                 htm_files, structure, parseVars, extractVars, htmlVars>>

\* lines 322-338: the loop is over; the corpus is written and the totals printed
WriteOutput ==
  /\ pc = "batch" /\ file_i = Len(htm_files)
  /\ pc' = "done"
  /\ UNCHANGED <<structVars, mainVars, parseVars, extractVars, htmlVars>>

(* Specification of main: the input directory holds up to MaxBatch files   *)
(* of BatchPool, each with a document of DocPool, and any of them fail.    *)

MaxBatch == 3

BatchPool ==
  { <<"M", "H", "C", "1", "9", "0", "2", "3", ".", "H", "T", "M">>,
    <<"M", "H", "C", "1", "9", "0", "0", "1", ".", "H", "T", "M">>,
    <<"M", "H", "C", "0", "1", "0", "0", "2", ".", "H", "T", "M">>,
    <<"M", "H", "C", "1", "9", ".", "H", "T", "M">> }

DocPool ==
  { [stripped |-> <<>>, anchors |-> <<>>],
    [stripped |-> <<"x", " ", "a", "b", ".">>,
     anchors |-> <<[passage |-> GoodToken, display |-> <<"a", "b">>],
                   [passage |-> <<"G", "e", "n", "e", "s", "i", "s">>, display |-> <<"x">>]>>],
    [stripped |-> <<"c", "\n", "d">>,
     anchors |-> <<[passage |-> <<"L", "u", "+", "2", "3", ":", "5", "1">>, display |-> <<"c", " ", "d">>],
                   [passage |-> GoodToken, display |-> <<"z">>]>>] }

InitMain ==
  /\ pc = "main"
  /\ input_files \in {S \in SUBSET BatchPool : Cardinality(S) <= MaxBatch}
  /\ contents \in [input_files -> DocPool]
  /\ failing \in SUBSET input_files
  /\ file_i = 0 /\ documents = <<>> /\ total_refs = 0 /\ diagnostics = <<>>
  /\ StructIdle /\ ParseIdle /\ ExtractIdle /\ HtmlIdle

NextMain ==
  \/ MainBegin
  \/ ProcessFile
  \/ ProcessFileOpenFails
  \/ ProcessFileExtractFails
  \/ WriteOutput

SpecMain == InitMain /\ [][NextMain]_vars

RECURSIVE TotalReferences(_)
TotalReferences(docs) ==
  IF docs = <<>> THEN 0 ELSE Len(Head(docs).references) + TotalReferences(Tail(docs))

\* at every point of the loop and at the output step: the file names are sorted,
\* documents holds one record for each file visited that did not fail, in order,
\* total_refs is the sum of their reference counts, and one error line was
\* printed for each file visited that failed
BatchRecords ==
  /\ pc \in {"batch", "done"} =>
       LET kept == SelectSeq(SubSeq(htm_files, 1, file_i), LAMBDA f : f \notin failing)
       IN  /\ \A i \in 1..(Len(htm_files) - 1) : StrLess(htm_files[i], htm_files[i + 1])
           /\ Len(documents) = Len(kept)
           /\ \A k \in 1..Len(kept) : documents[k].id = kept[k]
           /\ total_refs = TotalReferences(documents)
           /\ Len(diagnostics) = file_i - Len(kept)
  /\ pc = "batch" => file_i <= Len(htm_files)
  /\ pc = "done" => file_i = Len(htm_files)

\* a step taken while files remain, failing or not, goes on to the next file
BatchStep ==
  (pc = "batch" /\ file_i < Len(htm_files)) => (pc' = "batch" /\ file_i' = file_i + 1)

(* C8: a failure while a file is processed never aborts the batch.         *)
(* Whatever files fail, every step of the loop goes on to the next file    *)
(* and the loop ends only in the output step, after every file was         *)
(* visited; all along, documents holds exactly one record for each file visited that    *)
(* did not fail, in the sorted order of the file names, and none for a     *)
(* file that failed, and total_refs is the sum of the reference counts of  *)
(* these records.                                                          *)
C8_FailuresNeverAbortTheBatch ==
  /\ []BatchRecords
  /\ [][BatchStep]_vars

\* three files, the second of which fails: the run reaches the output step with
\* the records of the first and the third and their three references
C8_Witness ==
  /\ pc = "done"
  /\ Len(htm_files) = 3
  /\ failing = {htm_files[2]}
  /\ Len(documents) = 2
  /\ documents[1].id = htm_files[1] /\ documents[2].id = htm_files[3]
  /\ Len(documents[1].references) = 1 /\ Len(documents[2].references) = 2
  /\ total_refs = 3
  /\ Len(diagnostics) = 1

=============================================================================
